---- MODULE Spec2Model ----
(***************************************************************************)
(* A model of the audit netlink codec of netlink-packet-audit:             *)
(*   - the StatusMessage codec (src/src/status.rs), byte for byte;         *)
(*   - the RuleMessage encoder (src/src/rules/rule.rs), one step per field *)
(*     of the message, over the regions of a RuleBuffer.                   *)
(* Two specifications share the module: SpecStatus and SpecRule.           *)
(***************************************************************************)
EXTENDS Integers, Sequences, FiniteSets, TLC

VARIABLES
    endian,     \* byte order of the build target ("le" or "be"): NativeEndian
    sMsg,       \* the StatusMessage handed to emit
    sBuf,       \* the status buffer, a sequence of bytes
    sPre,       \* the status buffer as it was before emit
    sPc,        \* "init", "emitted", "panicked", "checked", "parsed"
    sEmitted,   \* TRUE once emit has run to completion on sBuf
    sChecked,   \* result of StatusMessageBuffer::new_checked: "none", "Ok", "Err"
    sResult,    \* result of StatusMessage::parse: "none", "Ok", "Err"
    sParsed,    \* the StatusMessage returned by parse when sResult = "Ok"
    sReads,     \* the field accessors parse has invoked
    rMsg,       \* the RuleMessage handed to emit
    rb,         \* the RuleBuffer over the caller's buffer, region by region
    rPc,        \* "init", "fields", "done", "panicked", "parsed"
    rI,         \* emit's loop index i
    buflen,     \* emit's running string-pool cursor `buflen`
    rWrites,    \* the pool ranges <<from, to>> copied so far, in order
    rResult,    \* result of RuleMessage::parse: "none", "Ok", "Err"
    rParsed     \* the RuleMessage returned by parse when rResult = "Ok"

statusVars == <<sMsg, sBuf, sPre, sPc, sEmitted, sChecked, sResult, sParsed, sReads>>

ruleVars == <<rMsg, rb, rPc, rI, buflen, rWrites, rResult, rParsed>>

vars == <<endian, statusVars, ruleVars>>

----------------------------------------------------------------------------
(* Bounds of the model *)

\* status buffers of every length 0..MaxBufLen are allocated
MaxBufLen == 41

\* every sequence of at most MaxFields core fields is a rule's field list
MaxFields == 2

\* every string of at most MaxStrLen bytes is a Filterkey value
MaxStrLen == 2

----------------------------------------------------------------------------
(* 32-bit words and bytes *)

\* A u32 is held as its four base-256 digits, least significant first, so
\* that every value 0 .. 2^32 - 1 has exactly one representation.
Byte == 0..255

\* `n as u32` for a length, count or code n below 2^31
U32Of(n) ==
    <<n % 256, (n \div 256) % 256, (n \div 65536) % 256, (n \div 16777216) % 256>>

\* whether a u32 is below 2^31, and then its value as a number
Small(w) == w[4] < 128

NatOf(w) == w[1] + 256 * w[2] + 65536 * w[3] + 16777216 * w[4]

\* 0xFFFFFFFF
MaxWord == <<255, 255, 255, 255>>

\* the values the u32 fields are drawn from
U32Sample == {U32Of(0), U32Of(16909060), MaxWord}

Option(S) == {<< >>} \cup {<<v>> : v \in S}

None == << >>

Some(v) == <<v>>

\* the range a..b of lib.rs's Field
Field(a, b) == [start |-> a, end |-> b]

\* NativeEndian::write_u32 into buf[range]; the slice index panics when the
\* range is outside the buffer, which callers test with Fits
Fits(buf, range) == range.end <= Len(buf)

write_u32(buf, range, value) ==
    [i \in 1..Len(buf) |->
        IF i - 1 >= range.start /\ i - 1 < range.end
        THEN IF endian = "le"
             THEN value[(i - 1 - range.start) + 1]
             ELSE value[4 - (i - 1 - range.start)]
        ELSE buf[i]]

read_u32(buf, range) ==
    IF endian = "le"
    THEN <<buf[range.start + 1], buf[range.start + 2],
           buf[range.start + 3], buf[range.start + 4]>>
    ELSE <<buf[range.start + 4], buf[range.start + 3],
           buf[range.start + 2], buf[range.start + 1]>>

----------------------------------------------------------------------------
(* status.rs: the layout *)

MASK == Field(0, 4)
\* ENABLED of status.rs (the name is a TLA+ keyword)
ENABLED_FIELD == Field(4, 8)
FAILURE == Field(8, 12)
PID == Field(12, 16)
RATE_LIMITING == Field(16, 20)
BACKLOG_LIMIT == Field(20, 24)
LOST == Field(24, 28)
BACKLOG == Field(28, 32)
MINIMAL_STATUS_MESSAGE_LEN == BACKLOG.end
FEATURE_BITMAP == Field(32, 36)
BACKLOG_WAIT_TIME == Field(36, 40)
BACKLOG_WAIT_TIME_ACTUAL == Field(36, 40)
MAXIMAL_STATUS_MESSAGE_LEN == BACKLOG_WAIT_TIME_ACTUAL.end

\* the eight mandatory fields in the order emit and parse visit them
Mandatory ==
    << [name |-> "mask", range |-> MASK],
       [name |-> "enabled", range |-> ENABLED_FIELD],
       [name |-> "failure", range |-> FAILURE],
       [name |-> "pid", range |-> PID],
       [name |-> "rate_limiting", range |-> RATE_LIMITING],
       [name |-> "backlog_limit", range |-> BACKLOG_LIMIT],
       [name |-> "lost", range |-> LOST],
       [name |-> "backlog", range |-> BACKLOG] >>

MandatoryNames == {Mandatory[k].name : k \in 1..Len(Mandatory)}

OptionalNames == {"feature_bitmap", "backlog_wait_time", "backlog_wait_time_actual"}

\* the wire range of an optional field
OptionalRange(name) ==
    CASE name = "feature_bitmap" -> FEATURE_BITMAP
      [] name = "backlog_wait_time" -> BACKLOG_WAIT_TIME
      [] name = "backlog_wait_time_actual" -> BACKLOG_WAIT_TIME_ACTUAL

\* StatusMessage::new(): Default::default()
DefaultStatus ==
    [mask |-> U32Of(0), enabled |-> U32Of(0), failure |-> U32Of(0),
     pid |-> U32Of(0), rate_limiting |-> U32Of(0), backlog_limit |-> U32Of(0),
     lost |-> U32Of(0), backlog |-> U32Of(0),
     feature_bitmap |-> None, backlog_wait_time |-> None,
     backlog_wait_time_actual |-> None]

\* the mandatory words of the messages explored: all equal, or all different
MandatorySample ==
    {[n \in MandatoryNames |-> v] : v \in {U32Of(0), MaxWord}}
    \cup {[n \in MandatoryNames |->
             U32Of(16909060
                   + (CHOOSE k \in 1..Len(Mandatory) : Mandatory[k].name = n))]}

StatusMessages ==
    {[mask |-> m["mask"], enabled |-> m["enabled"], failure |-> m["failure"],
      pid |-> m["pid"], rate_limiting |-> m["rate_limiting"],
      backlog_limit |-> m["backlog_limit"], lost |-> m["lost"],
      backlog |-> m["backlog"],
      feature_bitmap |-> fb, backlog_wait_time |-> bw,
      backlog_wait_time_actual |-> ba] :
        m \in MandatorySample, fb \in Option(U32Sample),
        bw \in Option(U32Sample), ba \in Option(U32Sample)}

----------------------------------------------------------------------------
(* status.rs: StatusMessageBuffer *)

\* (mutant) the length test off by one: a buffer of exactly the minimal
\* length is refused
check_buffer_length_off_by_one(buf) ==
    IF Len(buf) <= MINIMAL_STATUS_MESSAGE_LEN THEN "Err" ELSE "Ok"

\* check_buffer_length: Ok iff the mandatory fields fit
check_buffer_length(buf) ==
    IF Len(buf) < MINIMAL_STATUS_MESSAGE_LEN THEN "Err" ELSE "Ok"

\* new_checked: new, then check_buffer_length
new_checked(buf) == check_buffer_length(buf)

\* (mutant) feature_bitmap() testing the start of its range, not the end
feature_bitmap_from_start(buf) ==
    IF Len(buf) < FEATURE_BITMAP.start THEN None
    ELSE Some(read_u32(buf \o <<0, 0, 0, 0>>, FEATURE_BITMAP))

\* feature_bitmap(), backlog_wait_time(), backlog_wait_time_actual()
feature_bitmap(buf) ==
    IF Len(buf) < FEATURE_BITMAP.end THEN None
    ELSE Some(read_u32(buf, FEATURE_BITMAP))

backlog_wait_time(buf) ==
    IF Len(buf) < BACKLOG_WAIT_TIME.end THEN None
    ELSE Some(read_u32(buf, BACKLOG_WAIT_TIME))

\* (mutant) backlog_wait_time_actual() reading the word after
\* backlog_wait_time, 40..44
backlog_wait_time_actual_next_word(buf) ==
    IF Len(buf) < BACKLOG_WAIT_TIME.end + 4 THEN None
    ELSE Some(read_u32(buf, Field(BACKLOG_WAIT_TIME.end, BACKLOG_WAIT_TIME.end + 4)))

backlog_wait_time_actual(buf) ==
    IF Len(buf) < BACKLOG_WAIT_TIME_ACTUAL.end THEN None
    ELSE Some(read_u32(buf, BACKLOG_WAIT_TIME_ACTUAL))

\* set_feature_bitmap, set_backlog_wait_time, set_backlog_wait_time_actual:
\* each writes only when the buffer reaches the end of its range
set_feature_bitmap(buf, value) ==
    IF Len(buf) >= FEATURE_BITMAP.end
    THEN write_u32(buf, FEATURE_BITMAP, value) ELSE buf

set_backlog_wait_time(buf, value) ==
    IF Len(buf) >= BACKLOG_WAIT_TIME.end
    THEN write_u32(buf, BACKLOG_WAIT_TIME, value) ELSE buf

set_backlog_wait_time_actual(buf, value) ==
    IF Len(buf) >= BACKLOG_WAIT_TIME_ACTUAL.end
    THEN write_u32(buf, BACKLOG_WAIT_TIME_ACTUAL, value) ELSE buf

----------------------------------------------------------------------------
(* status.rs: Parseable and Emitable for StatusMessage *)

\* StatusMessage::parse on a buffer that passed check_buffer_length
ParseStatus(buf) ==
    [mask |-> read_u32(buf, MASK),
     enabled |-> read_u32(buf, ENABLED_FIELD),
     failure |-> read_u32(buf, FAILURE),
     pid |-> read_u32(buf, PID),
     rate_limiting |-> read_u32(buf, RATE_LIMITING),
     backlog_limit |-> read_u32(buf, BACKLOG_LIMIT),
     lost |-> read_u32(buf, LOST),
     backlog |-> read_u32(buf, BACKLOG),
     feature_bitmap |-> feature_bitmap(buf),
     backlog_wait_time |-> backlog_wait_time(buf),
     backlog_wait_time_actual |-> backlog_wait_time_actual(buf)]

\* buffer_len of StatusMessage
StatusBufferLen == MAXIMAL_STATUS_MESSAGE_LEN

\* the mandatory setters of emit, from the k-th on: set_mask .. set_backlog
\* index the buffer without a length test, so the first range that does not
\* fit panics and leaves the earlier words written
RECURSIVE EmitMandatory(_, _, _)
EmitMandatory(buf, m, k) ==
    IF k > Len(Mandatory) THEN [buf |-> buf, panicked |-> FALSE]
    ELSE IF ~Fits(buf, Mandatory[k].range) THEN [buf |-> buf, panicked |-> TRUE]
    ELSE EmitMandatory(write_u32(buf, Mandatory[k].range, m[Mandatory[k].name]),
                       m, k + 1)

\* the three optional stores of emit, each under its `if let Some`
EmitOptional(buf, m) ==
    LET b1 == IF m.feature_bitmap # None
              THEN set_feature_bitmap(buf, m.feature_bitmap[1]) ELSE buf
        b2 == IF m.backlog_wait_time # None
              THEN set_backlog_wait_time(b1, m.backlog_wait_time[1]) ELSE b1
        b3 == IF m.backlog_wait_time_actual # None
              THEN set_backlog_wait_time_actual(b2, m.backlog_wait_time_actual[1])
              ELSE b2
    IN b3

\* StatusMessage::emit
EmitStatus(buf, m) ==
    LET r == EmitMandatory(buf, m, 1)
    IN IF r.panicked THEN r
       ELSE [buf |-> EmitOptional(r.buf, m), panicked |-> FALSE]

----------------------------------------------------------------------------
(* The status state machine *)

InitStatus ==
    /\ endian \in {"le", "be"}
    /\ sMsg \in StatusMessages
    /\ \E n \in 0..MaxBufLen, fill \in {0, 255} : sBuf = [i \in 1..n |-> fill]
    /\ sPre = sBuf
    /\ sPc = "init"
    /\ sEmitted = FALSE
    /\ sChecked = "none"
    /\ sResult = "none"
    /\ sParsed = DefaultStatus
    /\ sReads = {}

\* msg.emit(&mut buf)
Emit ==
    /\ sPc = "init"
    /\ LET r == EmitStatus(sBuf, sMsg)
       IN /\ sBuf' = r.buf
          /\ sPc' = IF r.panicked THEN "panicked" ELSE "emitted"
          /\ sEmitted' = ~r.panicked
    /\ sPre' = sBuf
    /\ UNCHANGED <<endian, sMsg, sChecked, sResult, sParsed, sReads, ruleVars>>

\* StatusMessageBuffer::new_checked(&buf)
NewChecked ==
    /\ sPc \in {"init", "emitted"}
    /\ sChecked = "none"
    /\ sChecked' = new_checked(sBuf)
    /\ sPc' = "checked"
    /\ UNCHANGED <<endian, sMsg, sBuf, sPre, sEmitted, sResult, sParsed, sReads,
                   ruleVars>>

\* StatusMessage::parse(&StatusMessageBuffer::new(&buf))
Parse ==
    /\ sPc \in {"init", "emitted", "checked"}
    /\ sResult' = check_buffer_length(sBuf)
    /\ IF check_buffer_length(sBuf) = "Err"
       THEN UNCHANGED <<sParsed, sReads>>
       ELSE /\ sParsed' = ParseStatus(sBuf)
            /\ sReads' = MandatoryNames \cup OptionalNames
    /\ sPc' = "parsed"
    /\ UNCHANGED <<endian, sMsg, sBuf, sPre, sEmitted, sChecked, ruleVars>>


----------------------------------------------------------------------------
(* rules: the numeric vocabulary the encoder consumes *)

\* maximum number of fields of a rule, and words of the syscall bitmask
AUDIT_MAX_FIELDS == 64

AUDIT_BITMASK_SIZE == 64

\* the field-type codes AUDIT_*
AUDIT ==
    [PID |-> 0, UID |-> 1, EUID |-> 2, SUID |-> 3, FSUID |-> 4, GID |-> 5,
     EGID |-> 6, SGID |-> 7, FSGID |-> 8, LOGINUID |-> 9, PERS |-> 10,
     ARCH |-> 11, MSGTYPE |-> 12, SUBJ_USER |-> 13, SUBJ_ROLE |-> 14,
     SUBJ_TYPE |-> 15, SUBJ_SEN |-> 16, SUBJ_CLR |-> 17, PPID |-> 18,
     OBJ_USER |-> 19, OBJ_ROLE |-> 20, OBJ_TYPE |-> 21, OBJ_LEV_LOW |-> 22,
     OBJ_LEV_HIGH |-> 23, LOGINUID_SET |-> 24, SESSIONID |-> 25,
     FSTYPE |-> 26, DEVMAJOR |-> 100, DEVMINOR |-> 101, INODE |-> 102,
     EXIT |-> 103, SUCCESS |-> 104, WATCH |-> 105, PERM |-> 106, DIR |-> 107,
     FILETYPE |-> 108, OBJ_UID |-> 109, OBJ_GID |-> 110,
     FIELD_COMPARE |-> 111, EXE |-> 112, ARG0 |-> 200, ARG1 |-> 201,
     ARG2 |-> 202, ARG3 |-> 203, FILTERKEY |-> 210]

\* the fixed part of a rule buffer: flags, action, field_count, the syscall
\* bitmask, buflen, and a descriptor table of AUDIT_MAX_FIELDS slots of
\* {field type code, value or length, field flags}
RULE_BUF_MIN_LEN == 12 + 4 * AUDIT_BITMASK_SIZE + 4 + 12 * AUDIT_MAX_FIELDS

----------------------------------------------------------------------------
(* rule.rs: RuleField and RuleMessage *)

\* (mutant) compute_string_values_length with the ObjLevHigh arm left out
CountedVariantsWithoutObjLevHigh ==
    {"Watch", "Dir", "Filterkey", "SubjUser", "SubjRole", "SubjType",
     "SubjSen", "SubjClr", "ObjUser", "ObjRole", "ObjType", "ObjLevLow"}

\* the variants compute_string_values_length matches with `ref s`
CountedVariants ==
    {"Watch", "Dir", "Filterkey", "SubjUser", "SubjRole", "SubjType",
     "SubjSen", "SubjClr", "ObjUser", "ObjRole", "ObjType", "ObjLevLow",
     "ObjLevHigh"}

\* the arms of emit's match, in source order: the variant, the code it
\* passes to set_field, and whether it stores the value with set_str_field
EmitTable ==
    << <<"Watch", AUDIT.WATCH, TRUE>>,
       <<"Dir", AUDIT.DIR, TRUE>>,
       <<"Filterkey", AUDIT.FILTERKEY, TRUE>>,
       <<"SubjUser", AUDIT.SUBJ_USER, TRUE>>,
       <<"SubjRole", AUDIT.SUBJ_ROLE, TRUE>>,
       <<"SubjType", AUDIT.SUBJ_TYPE, TRUE>>,
       <<"SubjSen", AUDIT.SUBJ_SEN, TRUE>>,
       <<"SubjClr", AUDIT.SUBJ_CLR, TRUE>>,
       <<"ObjUser", AUDIT.OBJ_USER, TRUE>>,
       <<"ObjRole", AUDIT.OBJ_ROLE, TRUE>>,
       <<"ObjType", AUDIT.OBJ_TYPE, TRUE>>,
       <<"ObjLevLow", AUDIT.OBJ_LEV_LOW, TRUE>>,
       <<"ObjLevHigh", AUDIT.OBJ_LEV_HIGH, TRUE>>,
       <<"Pid", AUDIT.PID, FALSE>>,
       <<"Uid", AUDIT.UID, FALSE>>,
       <<"Euid", AUDIT.EUID, FALSE>>,
       <<"Suid", AUDIT.SUID, FALSE>>,
       <<"Fsuid", AUDIT.FSUID, FALSE>>,
       <<"Gid", AUDIT.GID, FALSE>>,
       <<"Egid", AUDIT.EGID, FALSE>>,
       <<"Sgid", AUDIT.SGID, FALSE>>,
       <<"Fsgid", AUDIT.FSGID, FALSE>>,
       <<"Loginuid", AUDIT.LOGINUID, FALSE>>,
       <<"Pers", AUDIT.PERS, FALSE>>,
       <<"Arch", AUDIT.ARCH, FALSE>>,
       <<"Msgtype", AUDIT.MSGTYPE, FALSE>>,
       <<"Ppid", AUDIT.PPID, FALSE>>,
       <<"LoginuidSet", AUDIT.LOGINUID_SET, FALSE>>,
       <<"Sessionid", AUDIT.SESSIONID, FALSE>>,
       <<"Fstype", AUDIT.FSTYPE, FALSE>>,
       <<"Devmajor", AUDIT.DEVMAJOR, FALSE>>,
       <<"Devminor", AUDIT.DEVMINOR, FALSE>>,
       <<"Inode", AUDIT.INODE, FALSE>>,
       <<"Exit", AUDIT.EXIT, FALSE>>,
       <<"Success", AUDIT.SUCCESS, FALSE>>,
       <<"Perm", AUDIT.PERM, FALSE>>,
       <<"Filetype", AUDIT.FILETYPE, FALSE>>,
       <<"ObjUid", AUDIT.OBJ_UID, FALSE>>,
       <<"ObjGid", AUDIT.OBJ_GID, FALSE>>,
       <<"FieldCompare", AUDIT.FIELD_COMPARE, FALSE>>,
       <<"Exe", AUDIT.EXE, FALSE>>,
       <<"Arg0", AUDIT.ARG0, FALSE>>,
       <<"Arg1", AUDIT.ARG1, FALSE>>,
       <<"Arg2", AUDIT.ARG2, FALSE>>,
       <<"Arg3", AUDIT.ARG3, FALSE>> >>

\* the variants of RuleField that emit matches
Variants == {EmitTable[k][1] : k \in 1..Len(EmitTable)}

\* (mutant) the Dir arm passing AUDIT_WATCH to set_field
EmitArmDirAsWatch(kind) ==
    LET k == CHOOSE j \in 1..Len(EmitTable) : EmitTable[j][1] = kind
    IN [code |-> IF kind = "Dir" THEN AUDIT.WATCH ELSE EmitTable[k][2],
        str |-> EmitTable[k][3]]

\* the arm of emit's match that a variant selects
EmitArm(kind) ==
    LET k == CHOOSE j \in 1..Len(EmitTable) : EmitTable[j][1] = kind
    IN [code |-> EmitTable[k][2], str |-> EmitTable[k][3]]

\* a RuleField: a string variant carries bytes, an integer variant a u32
StrField(kind, s) == [kind |-> kind, s |-> s, val |-> U32Of(0)]

IntField(kind, val) == [kind |-> kind, s |-> << >>, val |-> val]

\* an element of RuleMessage.fields: (RuleField, RuleFieldFlags)
Entry(field, flags) == [field |-> field, flags |-> flags]

\* compute_string_values_length, over the fields from index k (1-based) on
RECURSIVE StringValuesLengthFrom(_, _)
StringValuesLengthFrom(fields, k) ==
    IF k > Len(fields) THEN 0
    ELSE (IF fields[k].field.kind \in CountedVariants
          THEN Len(fields[k].field.s) ELSE 0)
         + StringValuesLengthFrom(fields, k + 1)

compute_string_values_length(m) == StringValuesLengthFrom(m.fields, 1)

\* (mutant) buffer_len reserving one byte more per string, as for a
\* terminator
buffer_len_terminated(m) ==
    RULE_BUF_MIN_LEN + compute_string_values_length(m)
    + Cardinality({k \in 1..Len(m.fields) : m.fields[k].field.kind \in CountedVariants})

\* Emitable::buffer_len of RuleMessage
buffer_len(m) == RULE_BUF_MIN_LEN + compute_string_values_length(m)

\* RuleMessage::new()
NewRuleMessage ==
    [flags |-> U32Of(0), action |-> U32Of(0), fields |-> << >>,
     syscalls |-> [w \in 1..AUDIT_BITMASK_SIZE |-> U32Of(0)]]

----------------------------------------------------------------------------
(* rules: RuleBuffer, the view emit writes through *)

\* the payload type of a variant: String for the arms that bind `ref s` and
\* pass it to set_str_field, u32 for the arms that pass *val to set_value
StrVariants == {EmitTable[k][1] : k \in {j \in 1..Len(EmitTable) : EmitTable[j][3]}}

IntVariants == Variants \ StrVariants

\* RuleBuffer::new over a zeroed buffer of n bytes: the fixed part, and the
\* bytes after it as the string pool
NewRuleBuffer(n) ==
    [len |-> n, flags |-> U32Of(0), action |-> U32Of(0), field_count |-> U32Of(0),
     syscalls |-> [b \in 1..(4 * AUDIT_BITMASK_SIZE) |-> 0],
     buflen |-> U32Of(0),
     fields |-> [k \in 1..AUDIT_MAX_FIELDS |-> U32Of(0)],
     values |-> [k \in 1..AUDIT_MAX_FIELDS |-> U32Of(0)],
     field_flags |-> [k \in 1..AUDIT_MAX_FIELDS |-> U32Of(0)],
     buf |-> [b \in 1..(n - RULE_BUF_MIN_LEN) |-> 0]]

set_flags(b, value) == [b EXCEPT !.flags = value]

set_action(b, value) == [b EXCEPT !.action = value]

set_field_count(b, value) == [b EXCEPT !.field_count = value]

set_buflen(b, value) == [b EXCEPT !.buflen = value]

\* a descriptor slot exists for positions 0 .. AUDIT_MAX_FIELDS - 1; a store
\* to any other position fails
InTable(position) == position < AUDIT_MAX_FIELDS

set_field(b, position, value) == [b EXCEPT !.fields[position + 1] = value]

set_value(b, position, value) == [b EXCEPT !.values[position + 1] = value]

set_field_flags(b, position, value) ==
    [b EXCEPT !.field_flags[position + 1] = value]

----------------------------------------------------------------------------
(* rule.rs: set_str_field and Emitable::emit *)

\* rule_buffer.buf_mut()[*buflen..*buflen + s.len()]: the slice exists only
\* inside the pool, otherwise the index panics
PoolSliceOk(b, cursor, s) == cursor + Len(s) <= Len(b.buf)

\* (mutant) the copy going to the start of the pool, not to the cursor
CopyToPoolStart(pool, cursor, s) ==
    [j \in 1..Len(pool) |-> IF j <= Len(s) THEN s[j] ELSE pool[j]]

\* .copy_from_slice(s.as_bytes()) at the cursor
CopyToPool(pool, cursor, s) ==
    [j \in 1..Len(pool) |->
        IF j > cursor /\ j <= cursor + Len(s) THEN s[j - cursor] ELSE pool[j]]

\* (mutant) set_str_field storing the cursor after the string, not the
\* string's length, in the value slot
set_str_field_end_offset(b, position, cursor, s) ==
    [rb |-> set_value([b EXCEPT !.buf = CopyToPool(b.buf, cursor, s)],
                      position, U32Of(cursor + Len(s))),
     buflen |-> cursor + Len(s)]

\* set_str_field(rule_buffer, position, buflen, s): the buffer and the cursor
\* it leaves
set_str_field(b, position, cursor, s) ==
    [rb |-> set_value([b EXCEPT !.buf = CopyToPool(b.buf, cursor, s)],
                      position, U32Of(Len(s))),
     buflen |-> cursor + Len(s)]

\* emit, lines 95-99: word i of self.syscalls written native-endian into the
\* slice syscalls_mut()[i * 4..i * 4 + 4], for every i
WriteSyscalls(bytes, words) ==
    [j \in 1..Len(bytes) |->
        LET i == (j - 1) \div 4
        IN IF i < Len(words)
           THEN write_u32(SubSeq(bytes, i * 4 + 1, i * 4 + 4), Field(0, 4),
                          words[i + 1])[((j - 1) % 4) + 1]
           ELSE bytes[j]]

\* emit, lines 89-100: everything before the loop
EmitRuleHeader(b, m) ==
    LET b1 == set_flags(b, m.flags)
        b2 == set_action(b1, m.action)
        b3 == set_field_count(b2, U32Of(Len(m.fields)))
        b4 == [b3 EXCEPT !.syscalls = WriteSyscalls(b3.syscalls, m.syscalls)]
    IN set_buflen(b4, U32Of(compute_string_values_length(m)))

\* emit, lines 105-287: one iteration of the loop, for entry e at index i.
\* The result names the buffer, the cursor, the pool range copied (if any)
\* and whether the iteration panicked
EmitRuleField(b, i, cursor, e) ==
    IF ~InTable(i)
    THEN [rb |-> b, buflen |-> cursor, wrote |-> << >>, panicked |-> TRUE]
    ELSE LET b1 == set_field_flags(b, i, e.flags)
             b2 == set_field(b1, i, U32Of(EmitArm(e.field.kind).code))
         IN IF EmitArm(e.field.kind).str
            THEN IF ~PoolSliceOk(b2, cursor, e.field.s)
                 THEN [rb |-> b2, buflen |-> cursor, wrote |-> << >>,
                       panicked |-> TRUE]
                 ELSE LET r == set_str_field(b2, i, cursor, e.field.s)
                      IN [rb |-> r.rb, buflen |-> r.buflen,
                          wrote |-> << <<cursor, cursor + Len(e.field.s)>> >>,
                          panicked |-> FALSE]
            ELSE [rb |-> set_value(b2, i, e.field.val), buflen |-> cursor,
                  wrote |-> << >>, panicked |-> FALSE]

----------------------------------------------------------------------------
(* rules: decoding a rule buffer *)

\* the field vocabulary: type code, variant, and whether the variant's value
\* is a string of the pool
Vocabulary ==
    { <<105, "Watch", TRUE>>, <<107, "Dir", TRUE>>, <<210, "Filterkey", TRUE>>,
      <<13, "SubjUser", TRUE>>, <<14, "SubjRole", TRUE>>,
      <<15, "SubjType", TRUE>>, <<16, "SubjSen", TRUE>>,
      <<17, "SubjClr", TRUE>>, <<19, "ObjUser", TRUE>>,
      <<20, "ObjRole", TRUE>>, <<21, "ObjType", TRUE>>,
      <<22, "ObjLevLow", TRUE>>, <<23, "ObjLevHigh", TRUE>>,
      <<0, "Pid", FALSE>>, <<1, "Uid", FALSE>>, <<2, "Euid", FALSE>>,
      <<3, "Suid", FALSE>>, <<4, "Fsuid", FALSE>>, <<5, "Gid", FALSE>>,
      <<6, "Egid", FALSE>>, <<7, "Sgid", FALSE>>, <<8, "Fsgid", FALSE>>,
      <<9, "Loginuid", FALSE>>, <<10, "Pers", FALSE>>, <<11, "Arch", FALSE>>,
      <<12, "Msgtype", FALSE>>, <<18, "Ppid", FALSE>>,
      <<24, "LoginuidSet", FALSE>>, <<25, "Sessionid", FALSE>>,
      <<26, "Fstype", FALSE>>, <<100, "Devmajor", FALSE>>,
      <<101, "Devminor", FALSE>>, <<102, "Inode", FALSE>>,
      <<103, "Exit", FALSE>>, <<104, "Success", FALSE>>,
      <<106, "Perm", FALSE>>, <<108, "Filetype", FALSE>>,
      <<109, "ObjUid", FALSE>>, <<110, "ObjGid", FALSE>>,
      <<111, "FieldCompare", FALSE>>, <<112, "Exe", FALSE>>,
      <<200, "Arg0", FALSE>>, <<201, "Arg1", FALSE>>, <<202, "Arg2", FALSE>>,
      <<203, "Arg3", FALSE>> }

KnownCode(code) == Small(code) /\ \E v \in Vocabulary : v[1] = NatOf(code)

VariantOf(code) == CHOOSE v \in Vocabulary : v[1] = NatOf(code)

\* the words of the syscall bitmask region
ReadSyscalls(bytes) ==
    [w \in 1..AUDIT_BITMASK_SIZE |-> read_u32(bytes, Field((w - 1) * 4, w * 4))]

\* whether descriptor slot i (0-based) holds the code of a string variant
SlotIsStr(b, i) == KnownCode(b.fields[i + 1]) /\ VariantOf(b.fields[i + 1])[3]

\* the pool cursor when slot i is decoded: the lengths of the string slots
\* before it
RECURSIVE PoolOffset(_, _)
PoolOffset(b, i) ==
    IF i = 0 THEN 0
    ELSE PoolOffset(b, i - 1)
         + (IF SlotIsStr(b, i - 1) /\ Small(b.values[i]) THEN NatOf(b.values[i])
            ELSE 0)

\* slot i cannot be decoded: its code is unknown, or its string would end
\* past the pool
BadSlot(b, i) ==
    \/ ~KnownCode(b.fields[i + 1])
    \/ /\ SlotIsStr(b, i)
       /\ \/ ~Small(b.values[i + 1])
          \/ PoolOffset(b, i) + NatOf(b.values[i + 1]) > Len(b.buf)

\* the entry slot i decodes to
DecodeSlot(b, i) ==
    LET v == VariantOf(b.fields[i + 1])
        w == b.values[i + 1]
    IN IF v[3]
       THEN Entry(StrField(v[2], SubSeq(b.buf, PoolOffset(b, i) + 1,
                                        PoolOffset(b, i) + NatOf(w))),
                  b.field_flags[i + 1])
       ELSE Entry(IntField(v[2], w), b.field_flags[i + 1])

\* decoding of the field_count descriptors, in slot order: the decoded
\* entries, or an error
ParseFields(b) ==
    IF \/ ~Small(b.field_count)
       \/ NatOf(b.field_count) > AUDIT_MAX_FIELDS
       \/ \E i \in 0..(NatOf(b.field_count) - 1) : BadSlot(b, i)
    THEN [ok |-> FALSE, fields |-> << >>]
    ELSE [ok |-> TRUE,
          fields |-> [k \in 1..NatOf(b.field_count) |-> DecodeSlot(b, k - 1)]]

\* RuleMessage::parse
ParseRuleMessage(b) ==
    LET f == ParseFields(b)
    IN IF f.ok
       THEN [ok |-> TRUE,
             msg |-> [flags |-> b.flags, action |-> b.action,
                      fields |-> f.fields,
                      syscalls |-> ReadSyscalls(b.syscalls)]]
       ELSE [ok |-> FALSE, msg |-> NewRuleMessage]

----------------------------------------------------------------------------
(* The rule messages explored *)

\* the strings a Filterkey is drawn from: the first k bytes of a key that
\* starts "/audit-wazuh", for every k up to MaxStrLen
KeyBytes == <<47, 97, 117, 100, 105, 116, 45, 119, 97, 122, 117, 104>>

StrSample == {SubSeq(KeyBytes \o KeyBytes, 1, k) : k \in 0..MaxStrLen}

\* comparison operators of RuleFieldFlags: AUDIT_EQUAL, AUDIT_NOT_EQUAL
EQUAL == U32Of(1073741824)

NOT_EQUAL == U32Of(805306368)

NO_FLAGS == U32Of(0)

CoreEntries ==
    {Entry(StrField("Filterkey", s), EQUAL) : s \in StrSample}
    \cup {Entry(StrField("Dir", <<47>>), NO_FLAGS),
          Entry(IntField("Pid", U32Of(1)), NOT_EQUAL),
          Entry(IntField("Arch", <<62, 0, 0, 192>>), EQUAL),
          Entry(IntField("Arg0", MaxWord), NO_FLAGS)}

\* every list of at most MaxFields core entries
ShortLists == UNION {[1..k -> CoreEntries] : k \in 0..MaxFields}

\* every variant once, between a string and an integer neighbour
VariantEntry(kind) ==
    IF kind \in StrVariants THEN Entry(StrField(kind, <<97, 47, 97>>), EQUAL)
    ELSE Entry(IntField(kind, U32Of(16909060)), NOT_EQUAL)

Neighbours ==
    {Entry(StrField("Watch", <<47, 97>>), NO_FLAGS),
     Entry(IntField("Exit", U32Of(2)), NO_FLAGS)}

VariantLists ==
    {<<p[1], VariantEntry(kind), p[2]>> :
        p \in {q \in Neighbours \X Neighbours : q[1] # q[2]}, kind \in Variants}

\* lists of AUDIT_MAX_FIELDS and AUDIT_MAX_FIELDS + 1 entries
Padded(prefix, filler, n) ==
    [k \in 1..n |-> IF k <= Len(prefix) THEN prefix[k] ELSE filler]

BoundaryLists ==
    {Padded(p, f, n) :
        p \in {<< >>, <<Entry(StrField("Dir", <<47, 97>>), NO_FLAGS)>>},
        f \in {Entry(IntField("Uid", U32Of(1000)), EQUAL),
               Entry(StrField("Filterkey", <<97>>), EQUAL)},
        n \in {AUDIT_MAX_FIELDS, AUDIT_MAX_FIELDS + 1}}

\* [Filterkey("audit-wazuh"), Dir("/etc")] and [Arch(0xC000003E), Arg0(2)]
ExampleLists ==
    { << Entry(StrField("Filterkey",
                        <<97, 117, 100, 105, 116, 45, 119, 97, 122, 117, 104>>),
               EQUAL),
         Entry(StrField("Dir", <<47, 101, 116, 99>>), EQUAL) >>,
      << Entry(IntField("Arch", <<62, 0, 0, 192>>), EQUAL),
         Entry(IntField("Arg0", U32Of(2)), EQUAL) >> }

\* flags, action and syscall bitmask of the messages explored
HeaderSample ==
    { [flags |-> U32Of(0), action |-> U32Of(0),
       syscalls |-> [w \in 1..AUDIT_BITMASK_SIZE |-> U32Of(0)]],
      [flags |-> U32Of(4), action |-> U32Of(1),
       syscalls |-> [w \in 1..AUDIT_BITMASK_SIZE |->
                       IF w = 1 THEN U32Of(1)
                       ELSE IF w = 2 THEN U32Of(16909060)
                       ELSE IF w = AUDIT_BITMASK_SIZE THEN <<0, 0, 0, 128>>
                       ELSE U32Of(0)]] }

RuleMessage(h, f) ==
    [flags |-> h.flags, action |-> h.action, fields |-> f, syscalls |-> h.syscalls]

\* the short lists and the examples under every header, the others under one
RuleMessages ==
    {RuleMessage(h, f) : h \in HeaderSample, f \in ShortLists \cup ExampleLists}
    \cup {RuleMessage(h, f) : h \in {x \in HeaderSample : x.action = U32Of(1)},
                              f \in VariantLists \cup BoundaryLists}

----------------------------------------------------------------------------
(* The rule state machine *)

InitRule ==
    /\ endian \in {"le", "be"}
    /\ rMsg \in RuleMessages
    /\ rb = NewRuleBuffer(buffer_len(rMsg))
    /\ rPc = "init"
    /\ rI = 0
    /\ buflen = 0
    /\ rWrites = << >>
    /\ rResult = "none"
    /\ rParsed = NewRuleMessage

\* emit up to `let mut buflen = 0`
EmitHeader ==
    /\ rPc = "init"
    /\ rb' = EmitRuleHeader(rb, rMsg)
    /\ buflen' = 0
    /\ rI' = 0
    /\ rPc' = "fields"
    /\ UNCHANGED <<endian, rMsg, rWrites, rResult, rParsed, statusVars>>

\* one iteration of emit's loop
EmitField ==
    /\ rPc = "fields"
    /\ rI < Len(rMsg.fields)
    /\ LET r == EmitRuleField(rb, rI, buflen, rMsg.fields[rI + 1])
       IN /\ rb' = r.rb
          /\ buflen' = r.buflen
          /\ rWrites' = rWrites \o r.wrote
          /\ rPc' = IF r.panicked THEN "panicked" ELSE "fields"
          /\ rI' = IF r.panicked THEN rI ELSE rI + 1
    /\ UNCHANGED <<endian, rMsg, rResult, rParsed, statusVars>>

\* the loop is exhausted and emit returns
EmitReturn ==
    /\ rPc = "fields"
    /\ rI = Len(rMsg.fields)
    /\ rPc' = "done"
    /\ UNCHANGED <<endian, rMsg, rb, rI, buflen, rWrites, rResult, rParsed,
                   statusVars>>

\* RuleMessage::parse of the emitted buffer
ParseRule ==
    /\ rPc = "done"
    /\ LET r == ParseRuleMessage(rb)
       IN /\ rResult' = IF r.ok THEN "Ok" ELSE "Err"
          /\ rParsed' = r.msg
    /\ rPc' = "parsed"
    /\ UNCHANGED <<endian, rMsg, rb, rI, buflen, rWrites, statusVars>>


----------------------------------------------------------------------------
(* The two specifications *)

\* the status codec at rest
StatusIdle ==
    /\ sMsg = DefaultStatus
    /\ sBuf = << >>
    /\ sPre = << >>
    /\ sPc = "init"
    /\ sEmitted = FALSE
    /\ sChecked = "none"
    /\ sResult = "none"
    /\ sParsed = DefaultStatus
    /\ sReads = {}

\* the rule codec at rest: no message, no buffer
RuleIdle ==
    /\ rMsg = << >>
    /\ rb = << >>
    /\ rPc = "init"
    /\ rI = 0
    /\ buflen = 0
    /\ rWrites = << >>
    /\ rResult = "none"
    /\ rParsed = << >>

SInit == InitStatus /\ RuleIdle

SNext == Emit \/ NewChecked \/ Parse

SpecStatus == SInit /\ [][SNext]_vars

RInit == InitRule /\ StatusIdle

RNext == EmitHeader \/ EmitField \/ EmitReturn \/ ParseRule

SpecRule == RInit /\ [][RNext]_vars

----------------------------------------------------------------------------
(* Claims about the status codec, checked under SpecStatus *)

\* the bytes of a range that lie inside a buffer
BytesOf(buf, range) ==
    [k \in 1..(range.end - range.start) |->
        IF range.start + k <= Len(buf) THEN buf[range.start + k] ELSE -1]

AllOptionalPresent(m) == \A name \in OptionalNames : m[name] # None

\* C1 (as claimed): a StatusMessage with all three optional fields present,
\* whatever its 11 values, emitted into a buffer of buffer_len() bytes and
\* parsed back from that buffer, comes back equal to itself.
C1_RoundTrip ==
    (/\ sPc = "parsed"
     /\ sEmitted
     /\ Len(sBuf) = StatusBufferLen
     /\ AllOptionalPresent(sMsg))
    => (sResult = "Ok" /\ sParsed = sMsg)

\* C2: after a successful parse an optional field is present iff the buffer
\* reaches the end of the field's range; a 32-byte buffer gives no optional
\* field, a 36-byte buffer gives feature_bitmap alone.
C2_PresenceByLength ==
    (sPc = "parsed" /\ sResult = "Ok")
    => /\ \A name \in OptionalNames :
            (sParsed[name] # None) <=> (Len(sBuf) >= OptionalRange(name).end)
       /\ Len(sBuf) = 32 => \A name \in OptionalNames : sParsed[name] = None
       /\ Len(sBuf) = 36 => /\ sParsed.feature_bitmap # None
                            /\ sParsed.backlog_wait_time = None
                            /\ sParsed.backlog_wait_time_actual = None

\* C2 witness: a 36-byte buffer was parsed and only feature_bitmap is there
C2_Witness ==
    /\ sPc = "parsed"
    /\ Len(sBuf) = 36
    /\ sParsed.feature_bitmap = Some(MaxWord)
    /\ sParsed.backlog_wait_time = None
    /\ sParsed.backlog_wait_time_actual = None

\* C3: parse of a buffer shorter than 32 bytes (0 included) is an error,
\* invokes no field accessor and yields no message; parse of 32 bytes or more
\* succeeds; new_checked fails for exactly the same lengths.
C3_TooShort ==
    /\ sPc = "parsed"
       => /\ Len(sBuf) < 32 => /\ sResult = "Err"
                               /\ sReads = {}
                               /\ sParsed = DefaultStatus
          /\ Len(sBuf) >= 32 => sResult = "Ok"
    /\ sChecked # "none" => (sChecked = "Err" <=> Len(sBuf) < 32)
    /\ (sChecked # "none" /\ sResult # "none") => sChecked = sResult

\* C3 witness: new_checked and then parse both refused an empty buffer
C3_Witness ==
    /\ sPc = "parsed"
    /\ Len(sBuf) = 0
    /\ sChecked = "Err"
    /\ sResult = "Err"

\* C4 (as claimed): emit stores the 8 mandatory fields, and leaves the bytes
\* of the wire range of every absent optional field as they were before,
\* whatever the other optional fields hold.
C4_AbsentUntouched ==
    sPc = "emitted"
    => /\ \A k \in 1..Len(Mandatory) :
            read_u32(sBuf, Mandatory[k].range) = sMsg[Mandatory[k].name]
       /\ \A name \in OptionalNames :
            sMsg[name] = None
            => BytesOf(sBuf, OptionalRange(name)) = BytesOf(sPre, OptionalRange(name))

\* C11: a successful parse returns backlog_wait_time equal to
\* backlog_wait_time_actual: both absent when the buffer is shorter than 40
\* bytes, both the word read from bytes 36..40 otherwise; and when either is
\* present, feature_bitmap is present too.
C11_WaitTimesAliased ==
    (sPc = "parsed" /\ sResult = "Ok")
    => /\ Len(sBuf) >= 32
       /\ sParsed.backlog_wait_time = sParsed.backlog_wait_time_actual
       /\ Len(sBuf) < 40 => sParsed.backlog_wait_time = None
       /\ Len(sBuf) >= 40
          => sParsed.backlog_wait_time = Some(read_u32(sBuf, Field(36, 40)))
       /\ (sParsed.backlog_wait_time # None
           \/ sParsed.backlog_wait_time_actual # None)
          => sParsed.feature_bitmap # None

\* C11 witness: a message whose two wait times differ was emitted into 40
\* bytes and parsed; both parsed wait times are the emitted
\* backlog_wait_time_actual
C11_Witness ==
    /\ sPc = "parsed"
    /\ sEmitted
    /\ Len(sBuf) = 40
    /\ sMsg.backlog_wait_time = Some(U32Of(16909060))
    /\ sMsg.backlog_wait_time_actual = Some(MaxWord)
    /\ sParsed.backlog_wait_time = Some(MaxWord)
    /\ sParsed.backlog_wait_time_actual = Some(MaxWord)
    /\ sParsed.feature_bitmap # None

----------------------------------------------------------------------------
(* Claims about the rule codec, checked under SpecRule *)

\* whether a field carries a string, by the payload of its variant
IsStr(e) == e.field.kind \in StrVariants

\* the byte lengths of the string-valued fields among the first n
RECURSIVE StrLenSum(_, _)
StrLenSum(fields, n) ==
    IF n = 0 THEN 0
    ELSE StrLenSum(fields, n - 1)
         + (IF IsStr(fields[n]) THEN Len(fields[n].field.s) ELSE 0)

\* the bytes of the string-valued fields among the first n, in field order
RECURSIVE StrConcat(_, _)
StrConcat(fields, n) ==
    IF n = 0 THEN << >>
    ELSE StrConcat(fields, n - 1)
         \o (IF IsStr(fields[n]) THEN fields[n].field.s ELSE << >>)

NumFields == Len(rMsg.fields)

C6_TooManyFieldsRefused ==
    /\ NumFields = AUDIT_MAX_FIELDS => rPc # "panicked"
    /\ NumFields > AUDIT_MAX_FIELDS
       => /\ rPc \notin {"fields", "done", "parsed"}
          /\ rb = NewRuleBuffer(rb.len)

\* C7: when emit returns, the buflen word is the sum of the string lengths,
\* the value slot of a string field is the string's length, the value slot
\* of an integer field is its value, and the pool starts with the strings
\* laid end to end in field order.
C7_StringPool ==
    rPc = "done"
    => /\ rb.buflen = U32Of(StrLenSum(rMsg.fields, NumFields))
       /\ \A k \in 1..NumFields :
            rb.values[k] = IF IsStr(rMsg.fields[k])
                           THEN U32Of(Len(rMsg.fields[k].field.s))
                           ELSE rMsg.fields[k].field.val
       /\ SubSeq(rb.buf, 1, NatOf(rb.buflen)) = StrConcat(rMsg.fields, NumFields)

\* C7 witness: [Filterkey("audit-wazuh"), Dir("/etc")] was emitted: slots 11
\* and 4, a pool of 15 bytes
C7_Witness ==
    /\ rPc = "done"
    /\ NumFields = 2
    /\ rMsg.fields[1].field = StrField("Filterkey", SubSeq(KeyBytes, 2, 12))
    /\ rMsg.fields[2].field = StrField("Dir", <<47, 101, 116, 99>>)
    /\ rb.values[1] = U32Of(11)
    /\ rb.values[2] = U32Of(4)
    /\ rb.buf = SubSeq(KeyBytes, 2, 12) \o <<47, 101, 116, 99>>

\* the code the vocabulary gives a variant
CodeOf(kind) == (CHOOSE v \in Vocabulary : v[2] = kind)[1]

\* C8: a message of at most AUDIT_MAX_FIELDS fields, emitted and parsed,
\* comes back equal to itself, and slot i of the encoding holds the code and
\* the flags of the i-th field.
C8_RoundTrip ==
    /\ (rPc \in {"done", "parsed"} /\ NumFields <= AUDIT_MAX_FIELDS)
       => \A k \in 1..NumFields :
            /\ rb.fields[k] = U32Of(CodeOf(rMsg.fields[k].field.kind))
            /\ rb.field_flags[k] = rMsg.fields[k].flags
    /\ (rPc = "parsed" /\ NumFields <= AUDIT_MAX_FIELDS)
       => (rResult = "Ok" /\ rParsed = rMsg)
    /\ NumFields <= AUDIT_MAX_FIELDS => rPc # "panicked"

\* C8 witness: a message of AUDIT_MAX_FIELDS fields, strings among them, was
\* emitted and parsed
C8_Witness ==
    /\ rPc = "parsed"
    /\ rResult = "Ok"
    /\ NumFields = AUDIT_MAX_FIELDS
    /\ StrLenSum(rMsg.fields, NumFields) > AUDIT_MAX_FIELDS

\* the pool ranges copied so far follow each other without overlap
WritesInOrder ==
    \A k \in 1..Len(rWrites) :
        /\ rWrites[k][1] <= rWrites[k][2]
        /\ k > 1 => rWrites[k - 1][2] <= rWrites[k][1]

\* C9, the state part: while the loop runs, the cursor is the sum of the
\* lengths of the string fields before index i
C9_CursorIsPrefixSum ==
    /\ rPc = "fields" => buflen = StrLenSum(rMsg.fields, rI)
    /\ WritesInOrder

\* C9, the step part: the cursor starts at 0; a string field is copied to
\* [cursor, cursor + len) and moves the cursor by len; an integer field
\* leaves cursor and pool alone; the cursor never goes back
C9_CursorStep ==
    /\ (rPc = "init" /\ rPc' = "fields") => buflen' = 0
    /\ (rPc = "fields" /\ rI' = rI + 1)
       => LET e == rMsg.fields[rI + 1]
              n == Len(e.field.s)
          IN IF IsStr(e)
             THEN /\ buflen' = buflen + n
                  /\ rWrites' = Append(rWrites, <<buflen, buflen + n>>)
                  /\ SubSeq(rb'.buf, buflen + 1, buflen + n) = e.field.s
                  /\ \A j \in 1..Len(rb.buf) :
                        (j <= buflen \/ j > buflen + n) => rb'.buf[j] = rb.buf[j]
             ELSE /\ buflen' = buflen
                  /\ rb'.buf = rb.buf
                  /\ rWrites' = rWrites
    /\ rPc \in {"fields", "done", "panicked"} => buflen' >= buflen

\* C9: during emit the pool cursor is the running sum of the string lengths,
\* every string goes to the range that starts at the cursor, and no two
\* ranges overlap
C9_Cursor == []C9_CursorIsPrefixSum /\ [][C9_CursorStep]_vars

\* C9 witness: the loop has copied two strings and passed an integer field
C9_Witness ==
    /\ rPc = "fields"
    /\ rI = 3
    /\ Len(rWrites) = 2
    /\ rWrites[1][2] > 0
    /\ rWrites[2][2] > rWrites[2][1]

\* C10: when emit returns the cursor equals the buflen word it wrote and the
\* pool bytes buffer_len() reserved; the variants counted are the variants
\* stored through set_str_field, the 13 string variants; no copy leaves the
\* pool, so emit never panics on the pool slice.
C10_CursorMatchesReserved ==
    /\ rPc \in {"done", "parsed"}
       => /\ Small(rb.buflen)
          /\ buflen = NatOf(rb.buflen)
          /\ buflen = rb.len - RULE_BUF_MIN_LEN
          /\ buflen = Len(rb.buf)
    /\ \A kind \in Variants : kind \in CountedVariants <=> EmitArm(kind).str
    /\ CountedVariants =
         {"Watch", "Dir", "Filterkey", "SubjUser", "SubjRole", "SubjType",
          "SubjSen", "SubjClr", "ObjUser", "ObjRole", "ObjType", "ObjLevLow",
          "ObjLevHigh"}
    /\ \A k \in 1..Len(rWrites) : rWrites[k][2] <= rb.len - RULE_BUF_MIN_LEN
    /\ rPc = "panicked" => rI >= AUDIT_MAX_FIELDS

\* C10 witness: emit returned on a message that holds an ObjLevHigh string
C10_Witness ==
    /\ rPc = "done"
    /\ \E k \in 1..NumFields : rMsg.fields[k].field.kind = "ObjLevHigh"
    /\ buflen = 5

====
